---- MODULE Spec2Model ----
(***************************************************************************)
(* Model of the udpshooter monitoring Reporter (src/reporter.go): the      *)
(* Start/Stop lifecycle, the reportLoop goroutines with their tickers, the *)
(* steps of generateReport under the Stats read lock, the 30 second cache  *)
(* of collectSystemStats, sendToRemote, and the writers of the Stats store.*)
(*                                                                         *)
(* Time is an integer number of seconds.  A float64 bandwidth is kept as   *)
(* the exact ratio of the int64 numerator the code converts and the uptime *)
(* it divides by.  An int64 is a tuple of four 16-bit limbs, least         *)
(* significant first, in two's complement, so that bytes*8 wraps as it     *)
(* does in Go.                                                             *)
(***************************************************************************)
EXTENDS Integers, Sequences, FiniteSets, TLC

\* ---------------------------------------------------------------- bounds
MaxFires == 3      \* ticker deliveries over all tickers
MaxWrites == 1     \* mutations of the Stats store by the writers
MaxStops == 2      \* calls of Stop()
MaxTime == 30      \* the clock stops advancing here
TimeStep == 15     \* granularity of the clock
MaxGC == 1         \* garbage collections the runtime completes

\* ------------------------------------------------------ program constants
CacheTTL == 30     \* 30*time.Second in collectSystemStats

LoopIds == {1, 2}                     \* goroutines that Start() can spawn
KnownIP == "10.0.0.1"                 \* a source the store already lists
SenderIP == "10.0.0.2"                \* the source the writer sends from
PacketSizes == {1500}
GoodURL == "http://collector/report"
BadURL == "://bad"
URLs == {"", GoodURL, BadURL}
ZeroTime == -1                        \* the zero time.Time of lastCPUTime

\* ------------------------------------------------------------ int64 limbs
LimbBase == 65536
SignLimb == 32768

I64(n) ==
    <<n % LimbBase, (n \div LimbBase) % LimbBase, 0, 0>>

I64Zero == <<0, 0, 0, 0>>

I64IsNeg(x) == x[4] >= SignLimb

I64IsPos(x) == ~I64IsNeg(x) /\ x # I64Zero

\* x*8 with unbounded precision: five limbs, nothing lost.
Mul8Wide(x) ==
    LET p1 == x[1] * 8
        p2 == x[2] * 8 + (p1 \div LimbBase)
        p3 == x[3] * 8 + (p2 \div LimbBase)
        p4 == x[4] * 8 + (p3 \div LimbBase)
    IN  <<p1 % LimbBase, p2 % LimbBase, p3 % LimbBase, p4 % LimbBase,
          p4 \div LimbBase>>

\* x*8 as Go computes it on int64: the low 64 bits of the product.
Mul8(x) == SubSeq(Mul8Wide(x), 1, 4)

\* The two's complement negation of a four-limb value, as a magnitude.
I64Negate(x) ==
    LET n1 == (LimbBase - 1 - x[1]) + 1
        n2 == (LimbBase - 1 - x[2]) + (n1 \div LimbBase)
        n3 == (LimbBase - 1 - x[3]) + (n2 \div LimbBase)
        n4 == (LimbBase - 1 - x[4]) + (n3 \div LimbBase)
    IN  <<n1 % LimbBase, n2 % LimbBase, n3 % LimbBase, n4 % LimbBase>>

\* float64(x) for an int64 x: sign and magnitude (rounding is not modelled).
ToFloat(x) ==
    IF I64IsNeg(x) THEN [neg |-> TRUE, mag |-> I64Negate(x) \o <<0>>]
    ELSE [neg |-> FALSE, mag |-> x \o <<0>>]

ZeroBW == [neg |-> FALSE, mag |-> <<0, 0, 0, 0, 0>>, per |-> 1]

\* num / (uptime * 1000000): the quotient kept as numerator and uptime.
Ratio(num, uptime) ==
    IF num.mag = <<0, 0, 0, 0, 0>> THEN ZeroBW
    ELSE [neg |-> num.neg, mag |-> num.mag, per |-> uptime]

\* A totalBandwidth computed without the uptime > 0 test.
TotalBandwidth_NoGuard(bytes, uptime) == Ratio(ToFloat(Mul8(bytes)), uptime)

\* totalBandwidth of generateReport.
TotalBandwidth(bytes, uptime) ==
    IF uptime > 0 THEN Ratio(ToFloat(Mul8(bytes)), uptime) ELSE ZeroBW

\* ipBandwidth of generateReport.
IPBandwidth(bytes, uptime) ==
    IF uptime > 0 /\ I64IsPos(bytes) THEN Ratio(ToFloat(Mul8(bytes)), uptime)
    ELSE ZeroBW

\* bytes*8/(uptime*1e6) over the mathematical integers.
ExactBandwidth(bytes, uptime) ==
    Ratio([neg |-> FALSE, mag |-> Mul8Wide(bytes)], uptime)


\* ------------------------------------------------------------------ state
\* ----------------------------------------------------- the GC pause buffer
\* runtime.MemStats.NumGC is a uint32: two 16-bit limbs, low limb first.
U32(n) == <<n % LimbBase, n \div LimbBase>>

U32Zero == <<0, 0>>

U32Max == <<LimbBase - 1, LimbBase - 1>>

\* n + k on uint32, for 0 <= k < 2^16: the sum modulo 2^32.
U32Add(n, k) ==
    <<(n[1] + k) % LimbBase, (n[2] + ((n[1] + k) \div LimbBase)) % LimbBase>>

\* n - k on uint32, for 0 <= k < 2^16: the difference modulo 2^32.
U32Sub(n, k) ==
    IF n[1] >= k THEN <<n[1] - k, n[2]>>
    ELSE <<n[1] + LimbBase - k, (n[2] + LimbBase - 1) % LimbBase>>

\* len(MemStats.PauseNs).
PauseSlots == 256

\* n % 256 on uint32.
U32ModSlots(n) == n[1] % PauseSlots

\* A pause of zero nanoseconds: what a slot never written holds.
ZeroPause == -1

\* MemStats.PauseNs[s] when NumGC = n.  The runtime stores the pause of the
\* c-th cycle in slot (c - 1) % 256, so the slot holds the pause of the latest
\* cycle stored there, named here by how many cycles before the last one it
\* ran (0 for the most recent pause), or zero when no cycle has reached it.
PauseNs(n, s) ==
    IF n = U32Zero THEN ZeroPause
    ELSE LET age == (U32ModSlots(U32Sub(n, 1)) + PauseSlots - s) % PauseSlots
         IN  IF n[2] = 0 /\ n[1] <= age THEN ZeroPause ELSE age

\* No slot of the buffer was read.
NoSlot == -1

\* collectSystemStats of reporter.go: gcPauseMs, as the slot read and the
\* pause found there (the division by 1000000 keeps zero zero).
GCPause(n) ==
    IF n # U32Zero
    THEN LET s == U32ModSlots(U32Add(n, PauseSlots - 1))
         IN  [slot |-> s, pause |-> PauseNs(n, s)]
    ELSE [slot |-> NoSlot, pause |-> ZeroPause]

\* collectSystemStats of the earlier reporter (part_000): GCPauseMs.
GCPauseOld(n) ==
    LET s == U32ModSlots(n)
    IN  [slot |-> s, pause |-> PauseNs(n, s)]

VARIABLES
    now,            \* the wall clock, in seconds since NewReporter
    numGC,          \* runtime.MemStats.NumGC
    reportURL,      \* Reporter.reportURL
    cancelled,      \* Reporter.ctx is done
    wg,             \* Reporter.wg counter
    starts,         \* calls of Start() so far
    stopsCalled,    \* calls of Stop() so far
    stopsReturned,  \* calls of Stop() that have returned
    clientPC,       \* the caller of Start/Stop: "idle" or "stopWait"
    pc,             \* pc[i]: position of reportLoop goroutine i
    rpt,            \* rpt[i]: the locals of goroutine i's generateReport
    tickC,          \* tickC[i]: ticker.C of goroutine i holds a tick
    tickerOn,       \* tickerOn[i]: the ticker of goroutine i is running
    store,          \* the Stats counters
    muReaders,      \* goroutines holding Stats.mu for reading
    muWriter,       \* a writer holds Stats.mu
    muPending,      \* a writer waits in Stats.mu.Lock()
    wpc,            \* the writer: "idle", "waiting" or "locked"
    writes,         \* mutations committed
    lastCPUTime,    \* Reporter.lastCPUTime
    lastCPUStats,   \* Reporter.lastCPUStats
    cacheReaders,   \* goroutines holding cpuCacheMutex for reading
    cacheWriter,    \* the goroutine holding cpuCacheMutex for writing, or 0
    h,              \* history of the run, read only by the properties
    bwBytes,        \* bandwidth computation: the byte counter
    bwUptime,       \* bandwidth computation: the uptime
    bwOut,          \* bandwidth computation: what has been computed
    gcCount,        \* pause computation: MemStats.NumGC
    gcOut           \* pause computation: what has been computed

envVars == <<now, numGC>>
lifeVars == <<cancelled, wg, starts, stopsCalled, stopsReturned, clientPC>>
loopVars == <<pc, rpt, tickC, tickerOn>>
storeVars == <<store, muReaders, muWriter, muPending, wpc, writes>>
cacheVars == <<lastCPUTime, lastCPUStats, cacheReaders, cacheWriter>>
bwVars == <<bwBytes, bwUptime, bwOut, gcCount, gcOut>>
vars == <<envVars, reportURL, lifeVars, loopVars, storeVars, cacheVars, h, bwVars>>

StartTime == 0

\* The zero SystemStats value a new Reporter holds in lastCPUStats.
ZeroStats == [GoroutineCount |-> 0, GCCount |-> 0]

NoTotals == [BytesSent |-> -1, PacketsSent |-> -1]

NoLines == [totals |-> FALSE, sources |-> {}, system |-> FALSE]

\* The locals of generateReport before it has computed anything.
EmptyRpt ==
    [uptime |-> 0, totalBW |-> ZeroBW, readT |-> 0, readAge |-> 0, stats |-> ZeroStats,
     sources |-> <<>>, total |-> NoTotals, target |-> -1, marshal |-> "none",
     posts |-> 0, send |-> "none", failLog |-> "none", lines |-> NoLines]

InitStore ==
    [bytesSent |-> 0, packetsSent |-> 0,
     sourceIPStats |-> [ip \in {KnownIP} |-> [BytesSent |-> 0, PacketsSent |-> 0]],
     targetStats |-> 0]

InitHistory ==
    [fires |-> 0, begun |-> 0, posted |-> FALSE, firedBeforeCancel |-> FALSE,
     beganAfterCancel |-> FALSE, afterStop |-> FALSE, stopBeforeStart |-> FALSE,
     unjoined |-> FALSE, overlap |-> FALSE, failed |-> FALSE,
     marshalFailed |-> FALSE,
     gen |-> 0, reads |-> {}]

\* NewReporter: a fresh context, a zero WaitGroup, an empty cache.
NewReporter(url) ==
    /\ reportURL = url
    /\ cancelled = FALSE
    /\ wg = 0
    /\ lastCPUTime = ZeroTime
    /\ lastCPUStats = ZeroStats
    /\ cacheReaders = {}
    /\ cacheWriter = 0

InitCommon ==
    /\ now = StartTime
    /\ numGC = 0
    /\ starts = 0
    /\ stopsCalled = 0
    /\ stopsReturned = 0
    /\ clientPC = "idle"
    /\ pc = [i \in LoopIds |-> "none"]
    /\ rpt = [i \in LoopIds |-> EmptyRpt]
    /\ tickC = [i \in LoopIds |-> FALSE]
    /\ tickerOn = [i \in LoopIds |-> FALSE]
    /\ store = InitStore
    /\ muReaders = {}
    /\ muWriter = FALSE
    /\ muPending = FALSE
    /\ wpc = "idle"
    /\ writes = 0
    /\ h = InitHistory

Init ==
    /\ \E url \in URLs : NewReporter(url)
    /\ InitCommon
    /\ bwBytes = I64Zero
    /\ bwUptime = 0
    /\ bwOut = "none"
    /\ gcCount = U32Zero
    /\ gcOut = "none"

\* ------------------------------------------------------------- environment
AdvanceTime ==
    /\ now + TimeStep <= MaxTime
    /\ now' = now + TimeStep
    /\ UNCHANGED <<numGC, reportURL, lifeVars, loopVars, storeVars, cacheVars, h, bwVars>>

RuntimeGC ==
    /\ numGC < MaxGC
    /\ numGC' = numGC + 1
    /\ UNCHANGED <<now, reportURL, lifeVars, loopVars, storeVars, cacheVars, h, bwVars>>

Alive(i) == pc[i] \notin {"none", "exited"}

InReport(i) == pc[i] \notin {"none", "spawned", "select", "exited"}

\* ---------------------------------------------------------- Start and Stop
\* Start: wg.Add(1); go r.reportLoop().
Start ==
    /\ clientPC = "idle"
    /\ starts < Cardinality(LoopIds)
    /\ starts' = starts + 1
    /\ wg' = wg + 1
    /\ pc' = [pc EXCEPT ![starts + 1] = "spawned"]
    /\ h' = [h EXCEPT !.unjoined = TRUE, !.overlap = h.overlap \/ h.unjoined]
    /\ UNCHANGED <<envVars, reportURL, cancelled, stopsCalled, stopsReturned, clientPC,
                   rpt, tickC, tickerOn, storeVars, cacheVars, bwVars>>

\* Stop, first statement: r.cancel().
StopCancel ==
    /\ clientPC = "idle"
    /\ stopsCalled < MaxStops
    /\ stopsCalled' = stopsCalled + 1
    /\ cancelled' = TRUE
    /\ clientPC' = "stopWait"
    /\ h' = [h EXCEPT !.stopBeforeStart = h.stopBeforeStart \/ starts = 0,
                      !.firedBeforeCancel = IF cancelled THEN h.firedBeforeCancel
                                            ELSE h.fires > 0]
    /\ UNCHANGED <<envVars, reportURL, wg, starts, stopsReturned, loopVars, storeVars,
                   cacheVars, bwVars>>

\* A Stop that does not wait for the goroutine.
StopWait_NoJoin ==
    /\ clientPC = "stopWait"
    /\ clientPC' = "idle"
    /\ stopsReturned' = stopsReturned + 1
    /\ h' = [h EXCEPT !.unjoined = FALSE]
    /\ UNCHANGED <<envVars, reportURL, cancelled, wg, starts, stopsCalled, loopVars,
                   storeVars, cacheVars, bwVars>>

\* Stop, second statement: r.wg.Wait() returns when the counter is zero.
StopWait ==
    /\ clientPC = "stopWait"
    /\ wg = 0
    /\ clientPC' = "idle"
    /\ stopsReturned' = stopsReturned + 1
    /\ h' = [h EXCEPT !.unjoined = FALSE]
    /\ UNCHANGED <<envVars, reportURL, cancelled, wg, starts, stopsCalled, loopVars,
                   storeVars, cacheVars, bwVars>>

\* ------------------------------------------------------------- reportLoop
\* A reportLoop that calls wg.Done() at once instead of deferring it.
LoopStart_DoneEarly(i) ==
    /\ pc[i] = "spawned"
    /\ pc' = [pc EXCEPT ![i] = "select"]
    /\ tickerOn' = [tickerOn EXCEPT ![i] = TRUE]
    /\ wg' = wg - 1
    /\ UNCHANGED <<envVars, reportURL, cancelled, starts, stopsCalled, stopsReturned,
                   clientPC, rpt, tickC, storeVars, cacheVars, h, bwVars>>

\* reportLoop up to its select: time.NewTicker(r.interval).
LoopStart(i) ==
    /\ pc[i] = "spawned"
    /\ pc' = [pc EXCEPT ![i] = "select"]
    /\ tickerOn' = [tickerOn EXCEPT ![i] = TRUE]
    /\ UNCHANGED <<envVars, reportURL, lifeVars, rpt, tickC, storeVars, cacheVars, h, bwVars>>

\* The runtime delivers a tick into ticker.C (capacity 1; a tick that finds
\* the channel full is dropped).
TickerFire(i) ==
    /\ tickerOn[i]
    /\ h.fires < MaxFires
    /\ tickC' = [tickC EXCEPT ![i] = TRUE]
    /\ h' = [h EXCEPT !.fires = h.fires + 1]
    /\ UNCHANGED <<envVars, reportURL, lifeVars, pc, rpt, tickerOn, storeVars, cacheVars, bwVars>>

\* select, case <-r.ctx.Done(): return, running ticker.Stop() and wg.Done().
SelectDone(i) ==
    /\ pc[i] = "select"
    /\ cancelled
    /\ pc' = [pc EXCEPT ![i] = "exited"]
    /\ tickerOn' = [tickerOn EXCEPT ![i] = FALSE]
    /\ wg' = wg - 1
    /\ UNCHANGED <<envVars, reportURL, cancelled, starts, stopsCalled, stopsReturned,
                   clientPC, rpt, tickC, storeVars, cacheVars, h, bwVars>>

\* A select that starts a report without taking the tick out of ticker.C.
SelectTick_KeepTick(i) ==
    /\ pc[i] = "select"
    /\ tickC[i]
    /\ pc' = [pc EXCEPT ![i] = "rlock"]
    /\ h' = [h EXCEPT !.begun = h.begun + 1,
                      !.beganAfterCancel = h.beganAfterCancel \/ cancelled,
                      !.afterStop = h.afterStop \/ stopsReturned > 0]
    /\ UNCHANGED <<envVars, reportURL, lifeVars, rpt, tickC, tickerOn, storeVars, cacheVars, bwVars>>

\* select, case <-ticker.C: r.generateReport() is entered.  With both cases
\* ready Go picks either one.
SelectTick(i) ==
    /\ pc[i] = "select"
    /\ tickC[i]
    /\ tickC' = [tickC EXCEPT ![i] = FALSE]
    /\ pc' = [pc EXCEPT ![i] = "rlock"]
    /\ h' = [h EXCEPT !.begun = h.begun + 1,
                      !.beganAfterCancel = h.beganAfterCancel \/ cancelled,
                      !.afterStop = h.afterStop \/ stopsReturned > 0]
    /\ UNCHANGED <<envVars, reportURL, lifeVars, rpt, tickerOn, storeVars, cacheVars, bwVars>>

\* --------------------------------------------------------- generateReport
\* A generateReport that reads the store without waiting for the lock.
GenRLock_NoWait(i) ==
    /\ pc[i] = "rlock"
    /\ muReaders' = muReaders \cup {i}
    /\ pc' = [pc EXCEPT ![i] = "totals"]
    /\ UNCHANGED <<envVars, reportURL, lifeVars, rpt, tickC, tickerOn, store, muWriter,
                   muPending, wpc, writes, cacheVars, h, bwVars>>

\* r.stats.mu.RLock(): waits while a writer holds the lock or waits for it.
GenRLock(i) ==
    /\ pc[i] = "rlock"
    /\ ~muWriter
    /\ ~muPending
    /\ muReaders' = muReaders \cup {i}
    /\ pc' = [pc EXCEPT ![i] = "totals"]
    /\ UNCHANGED <<envVars, reportURL, lifeVars, rpt, tickC, tickerOn, store, muWriter,
                   muPending, wpc, writes, cacheVars, h, bwVars>>

\* uptime and totalBandwidth.
GenTotals(i) ==
    /\ pc[i] = "totals"
    /\ LET uptime == now - StartTime
       IN  rpt' = [rpt EXCEPT ![i].uptime = uptime,
                              ![i].totalBW = TotalBandwidth(I64(store.bytesSent), uptime)]
    /\ pc' = [pc EXCEPT ![i] = "cssRLock"]
    /\ UNCHANGED <<envVars, reportURL, lifeVars, tickC, tickerOn, storeVars, cacheVars, h, bwVars>>

\* The loop over r.stats.sourceIPStats, one entry per step, in any order.
GenCopySource(i) ==
    /\ pc[i] = "sources"
    /\ \E ip \in DOMAIN store.sourceIPStats \ DOMAIN rpt[i].sources :
         LET s == store.sourceIPStats[ip]
             e == [BytesSent |-> s.BytesSent, PacketsSent |-> s.PacketsSent,
                   BandwidthMbps |-> IPBandwidth(I64(s.BytesSent), rpt[i].uptime)]
         IN  rpt' = [rpt EXCEPT ![i].sources = (ip :> e) @@ rpt[i].sources]
    /\ UNCHANGED <<envVars, reportURL, lifeVars, pc, tickC, tickerOn, storeVars, cacheVars, h, bwVars>>

\* A generateReport that gives the read lock back as soon as reportData is
\* built, before serializing and sending it.
GenAssemble_Unlock(i) ==
    /\ pc[i] = "sources"
    /\ DOMAIN store.sourceIPStats \subseteq DOMAIN rpt[i].sources
    /\ rpt' = [rpt EXCEPT ![i].total = [BytesSent |-> store.bytesSent,
                                         PacketsSent |-> store.packetsSent]]
    /\ pc' = [pc EXCEPT ![i] = "marshal"]
    /\ muReaders' = muReaders \ {i}
    /\ UNCHANGED <<envVars, reportURL, lifeVars, tickC, tickerOn, store, muWriter,
                   muPending, wpc, writes, cacheVars, h, bwVars>>

\* reportData is built once the loop is over: the totals are read again and
\* TargetStats is the store's own map.
GenAssemble(i) ==
    /\ pc[i] = "sources"
    /\ DOMAIN store.sourceIPStats \subseteq DOMAIN rpt[i].sources
    /\ rpt' = [rpt EXCEPT ![i].total = [BytesSent |-> store.bytesSent,
                                         PacketsSent |-> store.packetsSent]]
    /\ pc' = [pc EXCEPT ![i] = "marshal"]
    /\ UNCHANGED <<envVars, reportURL, lifeVars, tickC, tickerOn, storeVars, cacheVars, h, bwVars>>

\* A generateReport that calls sendToRemote whatever the URL is.
GenMarshal_AlwaysSend(i) ==
    /\ pc[i] = "marshal"
    /\ \E ok \in BOOLEAN :
         IF ok
         THEN /\ rpt' = [rpt EXCEPT ![i].marshal = "ok", ![i].target = store.targetStats]
              /\ pc' = [pc EXCEPT ![i] = "newreq"]
         ELSE /\ rpt' = [rpt EXCEPT ![i].marshal = "err", ![i].failLog = "error"]
              /\ pc' = [pc EXCEPT ![i] = "runlock"]
    /\ h' = [h EXCEPT !.marshalFailed = h.marshalFailed \/ rpt'[i].marshal = "err"]
    /\ UNCHANGED <<envVars, reportURL, lifeVars, tickC, tickerOn, storeVars, cacheVars, bwVars>>

\* A generateReport without the return after a failed serialization.
GenMarshal_NoReturn(i) ==
    /\ pc[i] = "marshal"
    /\ \E ok \in BOOLEAN :
         IF ok
         THEN rpt' = [rpt EXCEPT ![i].marshal = "ok", ![i].target = store.targetStats]
         ELSE rpt' = [rpt EXCEPT ![i].marshal = "err", ![i].failLog = "error"]
    /\ pc' = [pc EXCEPT ![i] = IF reportURL # "" THEN "newreq" ELSE "log"]
    /\ h' = [h EXCEPT !.marshalFailed = h.marshalFailed \/ rpt'[i].marshal = "err"]
    /\ UNCHANGED <<envVars, reportURL, lifeVars, tickC, tickerOn, storeVars, cacheVars, bwVars>>

\* A generateReport that unlocks at its end instead of deferring: the return
\* after a failed serialization leaves with the read lock held.
GenMarshal_ReturnLocked(i) ==
    /\ pc[i] = "marshal"
    /\ \E ok \in BOOLEAN :
         IF ok
         THEN /\ rpt' = [rpt EXCEPT ![i].marshal = "ok", ![i].target = store.targetStats]
              /\ pc' = [pc EXCEPT ![i] = IF reportURL # "" THEN "newreq" ELSE "log"]
              /\ h' = h
         ELSE /\ rpt' = [rpt EXCEPT ![i] = EmptyRpt]
              /\ pc' = [pc EXCEPT ![i] = "select"]
              /\ h' = [h EXCEPT !.marshalFailed = TRUE]
    /\ UNCHANGED <<envVars, reportURL, lifeVars, tickC, tickerOn, storeVars, cacheVars, bwVars>>

\* json.MarshalIndent: it reads the target map through the document; on an
\* error the function logs it and returns.  Otherwise sendToRemote is called
\* when a URL is configured, and the log lines follow.
GenMarshal(i) ==
    /\ pc[i] = "marshal"
    /\ \E ok \in BOOLEAN :
         IF ok
         THEN /\ rpt' = [rpt EXCEPT ![i].marshal = "ok", ![i].target = store.targetStats]
              /\ pc' = [pc EXCEPT ![i] = IF reportURL # "" THEN "newreq" ELSE "log"]
         ELSE /\ rpt' = [rpt EXCEPT ![i].marshal = "err", ![i].failLog = "error"]
              /\ pc' = [pc EXCEPT ![i] = "runlock"]
    /\ h' = [h EXCEPT !.marshalFailed = h.marshalFailed \/ rpt'[i].marshal = "err"]
    /\ UNCHANGED <<envVars, reportURL, lifeVars, tickC, tickerOn, storeVars, cacheVars, bwVars>>

\* The totals line, one line per copied source, the system line.
GenLog(i) ==
    /\ pc[i] = "log"
    /\ rpt' = [rpt EXCEPT ![i].lines = [totals |-> TRUE,
                                         sources |-> DOMAIN rpt[i].sources,
                                         system |-> TRUE]]
    /\ pc' = [pc EXCEPT ![i] = "runlock"]
    /\ h' = [h EXCEPT !.afterStop = h.afterStop \/ stopsReturned > 0]
    /\ UNCHANGED <<envVars, reportURL, lifeVars, tickC, tickerOn, storeVars, cacheVars, bwVars>>

\* The deferred r.stats.mu.RUnlock(); generateReport returns to the select.
GenRUnlock(i) ==
    /\ pc[i] = "runlock"
    /\ muReaders' = muReaders \ {i}
    /\ rpt' = [rpt EXCEPT ![i] = EmptyRpt]
    /\ pc' = [pc EXCEPT ![i] = "select"]
    /\ UNCHANGED <<envVars, reportURL, lifeVars, tickC, tickerOn, store, muWriter,
                   muPending, wpc, writes, cacheVars, h, bwVars>>

\* ----------------------------------------------------- collectSystemStats
\* A Since that measures from the Reporter's construction when the time is
\* the zero time.
Since_FromStart(t) == IF t = ZeroTime THEN now - StartTime ELSE now - t

\* time.Since(t): the zero time lies further back than any duration.
Since(t) == IF t = ZeroTime THEN CacheTTL + MaxTime + 1 ELSE now - t

\* A cache test that also accepts a sample exactly 30 seconds old.
CacheFresh_Inclusive == Since(lastCPUTime) <= CacheTTL

\* The cache test of collectSystemStats.
CacheFresh == Since(lastCPUTime) < CacheTTL

\* What a recomputation reads from the runtime: the goroutines are the
\* caller of Start/Stop, the writer and the live reportLoops.
FreshStats ==
    [GoroutineCount |-> 2 + Cardinality({j \in LoopIds : Alive(j)}),
     GCCount |-> numGC]

\* r.cpuCacheMutex.RLock().
CssRLock(i) ==
    /\ pc[i] = "cssRLock"
    /\ cacheWriter = 0
    /\ cacheReaders' = cacheReaders \cup {i}
    /\ pc' = [pc EXCEPT ![i] = "cssCheck"]
    /\ UNCHANGED <<envVars, reportURL, lifeVars, rpt, tickC, tickerOn, storeVars,
                   lastCPUTime, lastCPUStats, cacheWriter, h, bwVars>>

\* A collectSystemStats that keeps its read hold of the cache lock when the
\* cache is stale and goes on to ask for the write hold.
CssCheck_KeepRLock(i) ==
    /\ pc[i] = "cssCheck"
    /\ IF CacheFresh
       THEN /\ rpt' = [rpt EXCEPT ![i].stats = lastCPUStats, ![i].readT = now]
            /\ pc' = [pc EXCEPT ![i] = "sources"]
            /\ cacheReaders' = cacheReaders \ {i}
            /\ h' = [h EXCEPT !.reads = h.reads \cup
                       {[t |-> now, v |-> lastCPUStats, hit |-> TRUE, gen |-> h.gen,
                         age |-> Since(lastCPUTime)]}]
       ELSE /\ rpt' = [rpt EXCEPT ![i].readT = now, ![i].readAge = Since(lastCPUTime)]
            /\ pc' = [pc EXCEPT ![i] = "cssCompute"]
            /\ cacheReaders' = cacheReaders
            /\ h' = h
    /\ UNCHANGED <<envVars, reportURL, lifeVars, tickC, tickerOn, storeVars,
                   lastCPUTime, lastCPUStats, cacheWriter, bwVars>>

\* The test under the read lock, then RUnlock on either branch: a fresh
\* cache is copied and returned, a stale one leads to the recomputation.
CssCheck(i) ==
    /\ pc[i] = "cssCheck"
    /\ cacheReaders' = cacheReaders \ {i}
    /\ IF CacheFresh
       THEN /\ rpt' = [rpt EXCEPT ![i].stats = lastCPUStats, ![i].readT = now]
            /\ pc' = [pc EXCEPT ![i] = "sources"]
            /\ h' = [h EXCEPT !.reads = h.reads \cup
                       {[t |-> now, v |-> lastCPUStats, hit |-> TRUE, gen |-> h.gen,
                         age |-> Since(lastCPUTime)]}]
       ELSE /\ rpt' = [rpt EXCEPT ![i].readT = now, ![i].readAge = Since(lastCPUTime)]
            /\ pc' = [pc EXCEPT ![i] = "cssCompute"]
            /\ h' = h
    /\ UNCHANGED <<envVars, reportURL, lifeVars, tickC, tickerOn, storeVars,
                   lastCPUTime, lastCPUStats, cacheWriter, bwVars>>

\* runtime.ReadMemStats, NumCPU, NumGoroutine and the SystemStats literal.
CssCompute(i) ==
    /\ pc[i] = "cssCompute"
    /\ rpt' = [rpt EXCEPT ![i].stats = FreshStats]
    /\ pc' = [pc EXCEPT ![i] = "cssLock"]
    /\ UNCHANGED <<envVars, reportURL, lifeVars, tickC, tickerOn, storeVars, cacheVars, h, bwVars>>

\* r.cpuCacheMutex.Lock().
CssLock(i) ==
    /\ pc[i] = "cssLock"
    /\ cacheWriter = 0
    /\ cacheReaders = {}
    /\ cacheWriter' = i
    /\ pc' = [pc EXCEPT ![i] = "cssUpdate"]
    /\ UNCHANGED <<envVars, reportURL, lifeVars, rpt, tickC, tickerOn, storeVars,
                   lastCPUTime, lastCPUStats, cacheReaders, h, bwVars>>

\* The cache update, Unlock, return stats.
CssUpdate(i) ==
    /\ pc[i] = "cssUpdate"
    /\ lastCPUTime' = now
    /\ lastCPUStats' = rpt[i].stats
    /\ cacheWriter' = 0
    /\ pc' = [pc EXCEPT ![i] = "sources"]
    /\ h' = [h EXCEPT !.gen = h.gen + 1,
                      !.reads = h.reads \cup
                         {[t |-> rpt[i].readT, v |-> rpt[i].stats, hit |-> FALSE,
                           gen |-> h.gen + 1, age |-> rpt[i].readAge]}]
    /\ UNCHANGED <<envVars, reportURL, lifeVars, rpt, tickC, tickerOn, storeVars,
                   cacheReaders, bwVars>>

\* ------------------------------------------------------------ sendToRemote
\* http.NewRequestWithContext: an unparsable URL is logged as an error and
\* sendToRemote returns.
SendNewRequest(i) ==
    /\ pc[i] = "newreq"
    /\ IF reportURL = BadURL
       THEN /\ rpt' = [rpt EXCEPT ![i].send = "badreq", ![i].failLog = "error"]
            /\ pc' = [pc EXCEPT ![i] = "log"]
       ELSE /\ rpt' = rpt
            /\ pc' = [pc EXCEPT ![i] = "do"]
    /\ UNCHANGED <<envVars, reportURL, lifeVars, tickC, tickerOn, storeVars, cacheVars, h, bwVars>>

\* r.httpClient.Do(req) is called: the POST is under way.
SendDo(i) ==
    /\ pc[i] = "do"
    /\ rpt' = [rpt EXCEPT ![i].posts = rpt[i].posts + 1]
    /\ pc' = [pc EXCEPT ![i] = "inflight"]
    /\ h' = [h EXCEPT !.posted = TRUE,
                      !.afterStop = h.afterStop \/ stopsReturned > 0]
    /\ UNCHANGED <<envVars, reportURL, lifeVars, tickC, tickerOn, storeVars, cacheVars, bwVars>>

SendOutcomes == {"2xx", "non2xx", "transport"}

LogLevel(outcome) ==
    CASE outcome = "2xx" -> "debug"
      [] outcome = "non2xx" -> "warn"
      [] OTHER -> "error"

\* A delivery that retries: after a failure the request is sent again.
SendComplete_Retry(i) ==
    /\ pc[i] = "inflight"
    /\ \E outcome \in SendOutcomes :
         /\ rpt' = [rpt EXCEPT ![i].send = outcome, ![i].failLog = LogLevel(outcome)]
         /\ pc' = [pc EXCEPT ![i] = IF outcome = "2xx" THEN "log" ELSE "do"]
         /\ h' = [h EXCEPT !.failed = h.failed \/ outcome # "2xx"]
    /\ UNCHANGED <<envVars, reportURL, lifeVars, tickC, tickerOn, storeVars, cacheVars, bwVars>>

\* Do returns: a response with a 2xx or another status, or an error (no
\* connection, the client's timeout, the context cancelled).  The outcome is
\* logged at its level and sendToRemote returns.
SendComplete(i) ==
    /\ pc[i] = "inflight"
    /\ \E outcome \in SendOutcomes :
         /\ rpt' = [rpt EXCEPT ![i].send = outcome, ![i].failLog = LogLevel(outcome)]
         /\ h' = [h EXCEPT !.failed = h.failed \/ outcome # "2xx"]
    /\ pc' = [pc EXCEPT ![i] = "log"]
    /\ UNCHANGED <<envVars, reportURL, lifeVars, tickC, tickerOn, storeVars, cacheVars, bwVars>>

\* A request built without r.ctx: cancelling the Reporter does not reach it.
SendAbort_Detached(i) ==
    /\ pc[i] = "inflight"
    /\ cancelled
    /\ UNCHANGED vars

\* The request carries r.ctx: once the context is cancelled Do returns the
\* context's error without waiting for the collector or for the timeout.
SendAbort(i) ==
    /\ pc[i] = "inflight"
    /\ cancelled
    /\ rpt' = [rpt EXCEPT ![i].send = "transport", ![i].failLog = LogLevel("transport")]
    /\ h' = [h EXCEPT !.failed = TRUE]
    /\ pc' = [pc EXCEPT ![i] = "log"]
    /\ UNCHANGED <<envVars, reportURL, lifeVars, tickC, tickerOn, storeVars, cacheVars, bwVars>>

\* ------------------------------------------------------- the store's writers
\* A sender calls Stats.mu.Lock().
WriterRequest ==
    /\ wpc = "idle"
    /\ writes < MaxWrites
    /\ wpc' = "waiting"
    /\ muPending' = TRUE
    /\ UNCHANGED <<envVars, reportURL, lifeVars, loopVars, store, muReaders, muWriter,
                   writes, cacheVars, h, bwVars>>

\* Lock() returns once no reader holds the lock.
WriterAcquire ==
    /\ wpc = "waiting"
    /\ muReaders = {}
    /\ ~muWriter
    /\ wpc' = "locked"
    /\ muPending' = FALSE
    /\ muWriter' = TRUE
    /\ UNCHANGED <<envVars, reportURL, lifeVars, loopVars, store, muReaders, writes,
                   cacheVars, h, bwVars>>

\* The counters after one packet of n bytes from ip.
AddPacket(st, ip, n) ==
    LET old == IF ip \in DOMAIN st.sourceIPStats THEN st.sourceIPStats[ip]
               ELSE [BytesSent |-> 0, PacketsSent |-> 0]
        new == [BytesSent |-> old.BytesSent + n, PacketsSent |-> old.PacketsSent + 1]
    IN  [bytesSent |-> st.bytesSent + n,
         packetsSent |-> st.packetsSent + 1,
         sourceIPStats |-> (ip :> new) @@ st.sourceIPStats,
         targetStats |-> st.targetStats + 1]

\* The mutation under the exclusive lock, then Unlock().
WriterCommit ==
    /\ wpc = "locked"
    /\ \E n \in PacketSizes : store' = AddPacket(store, SenderIP, n)
    /\ writes' = writes + 1
    /\ muWriter' = FALSE
    /\ wpc' = "idle"
    /\ UNCHANGED <<envVars, reportURL, lifeVars, loopVars, muReaders, muPending,
                   cacheVars, h, bwVars>>

\* ------------------------------------------------------ the specifications
\* The steps of one reportLoop goroutine.
LoopStep(i) ==
    \/ LoopStart(i)
    \/ TickerFire(i)
    \/ SelectDone(i)
    \/ SelectTick(i)
    \/ GenRLock(i)
    \/ GenTotals(i)
    \/ CssRLock(i)
    \/ CssCheck(i)
    \/ CssCompute(i)
    \/ CssLock(i)
    \/ CssUpdate(i)
    \/ GenCopySource(i)
    \/ GenAssemble(i)
    \/ GenMarshal(i)
    \/ SendNewRequest(i)
    \/ SendDo(i)
    \/ SendComplete(i)
    \/ SendAbort(i)
    \/ GenLog(i)
    \/ GenRUnlock(i)

\* The Reporter as main() uses it: Start() and Stop() are each called once,
\* in either order and at any time, while the clock, the runtime and the
\* writers run.
StartOnce == starts = 0 /\ Start

StopOnce == stopsCalled = 0 /\ StopCancel

Next ==
    \/ AdvanceTime
    \/ RuntimeGC
    \/ StartOnce
    \/ StopOnce
    \/ StopWait
    \/ WriterRequest
    \/ WriterAcquire
    \/ WriterCommit
    \/ \E i \in LoopIds : LoopStep(i)

Spec == Init /\ [][Next]_vars

\* Any sequence of Start() and Stop() calls, with the clock, the runtime and
\* the writers at rest.
NextCalls ==
    \/ Start
    \/ StopCancel
    \/ StopWait
    \/ \E i \in LoopIds : LoopStep(i)

SpecCalls == Init /\ [][NextCalls]_vars

\* The steps a running reportLoop takes by itself: everything but the
\* ticker's fires, the choice of ctx.Done() in the select, and the collector's
\* answer.
LoopRun(i) ==
    \/ LoopStart(i)
    \/ SelectTick(i)
    \/ GenRLock(i)
    \/ GenTotals(i)
    \/ CssRLock(i)
    \/ CssCheck(i)
    \/ CssCompute(i)
    \/ CssLock(i)
    \/ CssUpdate(i)
    \/ GenCopySource(i)
    \/ GenAssemble(i)
    \/ GenMarshal(i)
    \/ SendNewRequest(i)
    \/ SendDo(i)
    \/ GenLog(i)
    \/ GenRUnlock(i)

\* Start() and Stop() called once each while the writers run, the clock at
\* rest.
NextStop ==
    \/ StartOnce
    \/ StopOnce
    \/ StopWait
    \/ WriterRequest
    \/ WriterAcquire
    \/ WriterCommit
    \/ \E i \in LoopIds : LoopStep(i)

\* Scheduling with a collector that may never answer: goroutines that can run
\* do run, a select whose ctx.Done() case stays ready takes it in the end,
\* a cancelled request is aborted, a writer that can take or release the lock
\* does.  Neither an answer of the collector nor the passing of time (the
\* client's timeout) is assumed.
FairStop ==
    /\ \A i \in LoopIds : WF_vars(LoopRun(i)) /\ SF_vars(SelectDone(i)) /\ WF_vars(SendAbort(i))
    /\ WF_vars(WriterAcquire)
    /\ WF_vars(WriterCommit)
    /\ WF_vars(StopWait)

SpecStop == Init /\ [][NextStop]_vars /\ FairStop

\* One tick for each reportLoop there can be.
LockFires == Cardinality(LoopIds)

\* Any number of Start() calls and one Stop() while the writers run, the clock
\* at rest: two reportLoops may share the store lock and the cache lock.
NextLocks ==
    \/ Start
    \/ StopOnce
    \/ StopWait
    \/ WriterRequest
    \/ WriterAcquire
    \/ WriterCommit
    \/ \E i \in LoopIds : LoopStep(i) /\ h'.fires <= LockFires

\* Fair scheduling: goroutines that can run do run, Do returns (the collector
\* answers or the client's 30 s timeout ends the request), a writer that can
\* take or release the lock does.
FairLocks ==
    /\ \A i \in LoopIds : WF_vars(LoopRun(i)) /\ WF_vars(SendComplete(i))
    /\ WF_vars(WriterAcquire)
    /\ WF_vars(WriterCommit)

SpecLocks == Init /\ [][NextLocks]_vars /\ FairLocks

\* --------------------------------------------- the bandwidth formulas alone
MaxUptime == 2     \* uptimes tried, in seconds

\* Byte counters from zero to the largest int64: 1, 125000, 2^32, 2^53,
\* 2^60 - 1, 2^60, 2^61, 2^62, 2^63 - 1.
BytesSamples ==
    {I64Zero, I64(1), I64(125000), <<0, 0, 1, 0>>, <<0, 0, 0, 32>>,
     <<65535, 65535, 65535, 4095>>, <<0, 0, 0, 4096>>, <<0, 0, 0, 8192>>,
     <<0, 0, 0, 16384>>, <<65535, 65535, 65535, 32767>>}

NotComputed == [neg |-> FALSE, mag |-> <<>>, per |-> 0]

InitBW ==
    /\ NewReporter("")
    /\ InitCommon
    /\ bwBytes \in BytesSamples
    /\ bwUptime \in 0..MaxUptime
    /\ bwOut = [total |-> NotComputed, source |-> NotComputed]
    /\ gcCount = U32Zero
    /\ gcOut = "none"

\* generateReport's totalBandwidth for these counters.
BWTotal ==
    /\ bwOut.total = NotComputed
    /\ bwOut' = [bwOut EXCEPT !.total = TotalBandwidth(bwBytes, bwUptime)]
    /\ UNCHANGED <<envVars, reportURL, lifeVars, loopVars, storeVars, cacheVars, h,
                   bwBytes, bwUptime, gcCount, gcOut>>

\* generateReport's ipBandwidth for a source with these counters.
BWSource ==
    /\ bwOut.source = NotComputed
    /\ bwOut' = [bwOut EXCEPT !.source = IPBandwidth(bwBytes, bwUptime)]
    /\ UNCHANGED <<envVars, reportURL, lifeVars, loopVars, storeVars, cacheVars, h,
                   bwBytes, bwUptime, gcCount, gcOut>>

NextBW == BWTotal \/ BWSource

SpecBW == InitBW /\ [][NextBW]_vars

\* ------------------------------------------------ the pause formulas alone
GCSpan == 7     \* counter values tried from each starting point

\* Counter values around 0, around the first turn of the buffer (256), around
\* 2^16, around 2^32 - 255 (where NumGC + 255 wraps) and up to 2^32 - 1.
GCStarts ==
    {U32Zero, U32(PauseSlots - 3), U32(LimbBase - 3),
     U32Sub(U32Max, PauseSlots + 2), U32Sub(U32Max, GCSpan)}

GCSamples == {U32Add(b, k) : b \in GCStarts, k \in 0..GCSpan}

NoPause == [slot |-> NoSlot - 1, pause |-> ZeroPause]

InitGC ==
    /\ NewReporter("")
    /\ InitCommon
    /\ bwBytes = I64Zero
    /\ bwUptime = 0
    /\ bwOut = "none"
    /\ gcCount \in GCSamples
    /\ gcOut = [cur |-> NoPause, old |-> NoPause]

\* gcPauseMs of a fresh sample, by reporter.go.
GCPauseCur ==
    /\ gcOut.cur = NoPause
    /\ gcOut' = [gcOut EXCEPT !.cur = GCPause(gcCount)]
    /\ UNCHANGED <<envVars, reportURL, lifeVars, loopVars, storeVars, cacheVars, h,
                   bwBytes, bwUptime, bwOut, gcCount>>

\* GCPauseMs of a sample, by the earlier reporter.
GCPausePart000 ==
    /\ gcOut.old = NoPause
    /\ gcOut' = [gcOut EXCEPT !.old = GCPauseOld(gcCount)]
    /\ UNCHANGED <<envVars, reportURL, lifeVars, loopVars, storeVars, cacheVars, h,
                   bwBytes, bwUptime, bwOut, gcCount>>

NextGC == GCPauseCur \/ GCPausePart000

SpecGC == InitGC /\ [][NextGC]_vars

\* ======================================================================
\* Properties
\* ======================================================================
StartedThenStopped == starts = 1 /\ ~h.stopBeforeStart /\ stopsReturned > 0

\* C1: on a Reporter started once, after Stop() has returned no reportLoop
\* is alive (so no generateReport and no POST is in progress) and no report
\* has begun, been logged or been posted since Stop() returned.
C1_NoReportAfterStop ==
    StartedThenStopped => (\A i \in LoopIds : ~Alive(i)) /\ ~h.afterStop

C1_Witness ==
    StartedThenStopped /\ h.begun > 0 /\ h.posted /\ pc[1] = "exited"

\* The document fields generateReport has read so far.
TotalsRead(i) == InReport(i) /\ pc[i] \notin {"rlock", "totals"}

SourceEntry(ip, uptime) ==
    LET s == store.sourceIPStats[ip]
    IN  [BytesSent |-> s.BytesSent, PacketsSent |-> s.PacketsSent,
         BandwidthMbps |-> IPBandwidth(I64(s.BytesSent), uptime)]

\* C2: every value generateReport has read for its report equals the store's
\* value in one single store state, the one the store is in: the bandwidth
\* numerator, each copied source entry and the totals; and no writer holds
\* the store lock while the report is being built.
C2_ConsistentSnapshot ==
    \A i \in LoopIds :
       /\ i \in muReaders => wpc # "locked"
       /\ TotalsRead(i) =>
            /\ rpt[i].totalBW = TotalBandwidth(I64(store.bytesSent), rpt[i].uptime)
            /\ \A ip \in DOMAIN rpt[i].sources :
                 /\ ip \in DOMAIN store.sourceIPStats
                 /\ rpt[i].sources[ip] = SourceEntry(ip, rpt[i].uptime)
            /\ rpt[i].total # NoTotals =>
                 /\ rpt[i].total = [BytesSent |-> store.bytesSent,
                                    PacketsSent |-> store.packetsSent]
                 /\ DOMAIN rpt[i].sources = DOMAIN store.sourceIPStats

C2_Witness ==
    \E i \in LoopIds :
       /\ pc[i] = "log"
       /\ rpt[i].total.BytesSent > 0
       /\ rpt[i].uptime > 0
       /\ wpc = "idle"
       /\ h.begun > 1

\* C3: once the context is cancelled no generateReport begins.
C3_NoReportAfterCancel == ~h.beganAfterCancel

\* C4 as claimed: at most one reportLoop is alive, whatever the calls.
C4_AtMostOneLoop == Cardinality({i \in LoopIds : Alive(i)}) <= 1

\* C4: at most one reportLoop is alive and at most one generateReport runs,
\* as long as Start() is never called again before a Stop() called after
\* the previous Start() has returned.
C4_AtMostOneLoopJoined ==
    ~h.overlap =>
       /\ Cardinality({i \in LoopIds : Alive(i)}) <= 1
       /\ Cardinality({i \in LoopIds : InReport(i)}) <= 1

C4_Witness == starts = 2 /\ ~h.overlap /\ InReport(2) /\ pc[1] = "exited"

\* C5: no writer waits for the store lock while the reporter holds it with a
\* POST in flight.
C5_WriterNotBlockedByPost ==
    \A i \in LoopIds : ~(pc[i] = "inflight" /\ i \in muReaders /\ wpc = "waiting")

\* C6: Start() then Stop() with no ticker fire before the cancel: no report
\* is ever generated.
C6_NoReportOnEarlyStop ==
    (starts = 1 /\ ~h.stopBeforeStart /\ cancelled /\ ~h.firedBeforeCancel)
       => h.begun = 0

DeliveryFailed(i) == rpt[i].send \in {"non2xx", "transport"}

FullLines(i) ==
    rpt[i].lines = [totals |-> TRUE, sources |-> DOMAIN store.sourceIPStats,
                    system |-> TRUE]

\* C7: a failed delivery is one POST, logged as a warning for a bad status
\* and as an error for a transport failure; the tick still logs its lines;
\* generateReport returns to the select of a loop that is still running, with
\* nothing kept from the tick, and the next tick starts from empty locals.
C7_FailureLocalToTick ==
    /\ [](\A i \in LoopIds :
            /\ rpt[i].posts <= 1
            /\ DeliveryFailed(i) =>
                 /\ rpt[i].posts = 1
                 /\ rpt[i].failLog = IF rpt[i].send = "non2xx" THEN "warn" ELSE "error"
                 /\ pc[i] \in {"log", "runlock"}
            /\ (DeliveryFailed(i) /\ pc[i] = "runlock") => FullLines(i))
    /\ [][\A i \in LoopIds :
            /\ (DeliveryFailed(i) /\ pc'[i] # pc[i]) =>
                 \/ pc[i] = "log" /\ pc'[i] = "runlock"
                 \/ pc[i] = "runlock" /\ pc'[i] = "select" /\ rpt'[i] = EmptyRpt
                       /\ i \notin muReaders'
            /\ (pc[i] = "select" /\ pc'[i] = "rlock") => rpt'[i] = EmptyRpt]_vars

C7_Witness ==
    \E i \in LoopIds :
       /\ h.failed
       /\ pc[i] = "runlock"
       /\ rpt[i].send = "2xx"
       /\ FullLines(i)

\* C8 as claimed: without a URL nothing is posted and every tick logs.
C8_EveryTickLogs ==
    reportURL = "" =>
       /\ ~h.posted
       /\ \A i \in LoopIds : pc[i] = "runlock" => FullLines(i)

\* C8: without a URL no request is ever made, and every tick whose document
\* was serialized logs the totals line, a line per source and the system line.
C8_NoPostAndLogs ==
    reportURL = "" =>
       /\ ~h.posted
       /\ \A i \in LoopIds :
            /\ pc[i] \notin {"newreq", "do", "inflight"}
            /\ rpt[i].posts = 0
            /\ (pc[i] = "runlock" /\ rpt[i].marshal = "ok") => FullLines(i)

C8_Witness ==
    /\ reportURL = ""
    /\ pc[1] = "runlock"
    /\ rpt[1].marshal = "ok"
    /\ rpt[1].lines.sources = {KnownIP, SenderIP}
    /\ h.begun > 1

Dist(a, b) == IF a >= b THEN a - b ELSE b - a

\* C9 as claimed: any two reads within 30 seconds of each other agree.
C9_ReadsWithinTTLAgree ==
    \A a, b \in h.reads : Dist(a.t, b.t) < CacheTTL => a.v = b.v

\* C9: reads served by the same recomputation agree (the read that
\* recomputed and the reads that found its sample less than 30 seconds old);
\* a read that finds the cache 30 seconds old or older recomputes, and the
\* cache then holds the sample it returned.
C9_SameRecomputationAgrees ==
    /\ \A a, b \in h.reads : a.gen = b.gen => a.v = b.v
    /\ \A r \in h.reads : r.hit <=> r.age < CacheTTL
    /\ \A r \in h.reads : r.gen = h.gen => r.v = lastCPUStats
    /\ \A r \in h.reads : ~r.hit => r.gen > 0
    /\ h.gen > 0 => \E r \in h.reads : r.gen = h.gen /\ ~r.hit

C9_Witness ==
    \E a, b, c \in h.reads :
       /\ ~a.hit /\ b.hit /\ a.gen = b.gen /\ a.t # b.t
       /\ ~c.hit /\ c.gen > a.gen /\ c.v # a.v
       /\ Dist(b.t, c.t) < CacheTTL

\* C10: with uptime > 0 the total and the per-source bandwidth equal
\* bytes*8/(uptime*1e6) for every byte count from 0 to the largest int64.
C10_BandwidthExact ==
    bwUptime > 0 =>
       /\ bwOut.total # NotComputed =>
            bwOut.total = ExactBandwidth(bwBytes, bwUptime)
       /\ bwOut.source # NotComputed =>
            bwOut.source = ExactBandwidth(bwBytes, bwUptime)


\* C11: once Stop() is called it returns, also when an HTTP delivery is in
\* flight to a collector that never answers: the cancellation aborts the
\* request, generateReport completes, reportLoop exits and wg.Wait() returns.
C11_StopReturns == (clientPC = "stopWait") ~> (clientPC = "idle" /\ stopsReturned > 0)

C11_Witness ==
    /\ clientPC = "stopWait"
    /\ cancelled
    /\ \E i \in LoopIds : pc[i] = "inflight" /\ i \in muReaders


MarshalFailed(i) == rpt[i].marshal = "err"

\* C12: a tick whose document cannot be serialized logs the failure, makes no
\* request and writes no report line; generateReport returns to the select of
\* a loop that is still running, with the lock released and nothing kept, and
\* the next tick starts from empty locals and reports as usual.
C12_MarshalFailureLocalToTick ==
    /\ [](\A i \in LoopIds :
            MarshalFailed(i) =>
               /\ pc[i] = "runlock"
               /\ rpt[i].failLog = "error"
               /\ rpt[i].posts = 0
               /\ rpt[i].send = "none"
               /\ rpt[i].lines = NoLines)
    /\ [][\A i \in LoopIds :
            /\ (MarshalFailed(i) /\ pc'[i] # pc[i]) =>
                  /\ pc'[i] = "select"
                  /\ rpt'[i] = EmptyRpt
                  /\ i \notin muReaders'
            /\ (pc[i] = "select" /\ pc'[i] = "rlock") => rpt'[i] = EmptyRpt]_vars

\* After a failed serialization a later tick has delivered and logged.
C12_Witness ==
    \E i \in LoopIds :
       /\ h.marshalFailed
       /\ pc[i] = "runlock"
       /\ rpt[i].marshal = "ok"
       /\ rpt[i].send = "2xx"
       /\ FullLines(i)


\* What the claim asks of one computed pause: the slot read is
\* (gcCount - 1) mod 256 when gcCount >= 1, the pause is 0 when gcCount = 0.
LatestPause(out) ==
    out # NoPause =>
       IF gcCount = U32Zero THEN out.pause = ZeroPause
       ELSE out.slot = U32ModSlots(U32Sub(gcCount, 1)) /\ out.pause = 0

\* C13: in both implementations of collectSystemStats a fresh sample's pause is
\* the buffer entry at (gcCount - 1) mod 256 for every gcCount >= 1 of the
\* 32-bit counter, and 0 when gcCount = 0.
C13_PauseIsLatestEverywhere == LatestPause(gcOut.cur) /\ LatestPause(gcOut.old)


\* Ticks waiting in the ticker channels.
PendingTicks == Cardinality({i \in LoopIds : tickC[i]})

\* C14: the reports of a task are sequential and ticks coalesce: a report
\* begins only from the select, after the previous one has returned, and takes
\* the one tick the channel holds; reports begun plus ticks pending never
\* exceed the ticker's fires.
C14_SequentialCoalesced ==
    /\ [](h.begun + PendingTicks <= h.fires)
    /\ [][\A i \in LoopIds :
            (pc'[i] = "rlock" /\ pc[i] # "rlock") =>
               /\ pc[i] = "select"
               /\ rpt[i] = EmptyRpt
               /\ i \notin muReaders
               /\ tickC[i] /\ ~tickC'[i]
               /\ h'.begun = h.begun + 1]_vars

\* Two fires during one report: one tick is pending, one was dropped.
C14_Witness ==
    \E i \in LoopIds :
       /\ InReport(i)
       /\ tickC[i]
       /\ h.begun = 1
       /\ h.fires >= 3


\* C15: once a Stop() has returned, no generateReport begins or runs, whatever
\* is called afterwards: a reportLoop spawned by a later Start() leaves
\* through ctx.Done() without reporting.
C15_StoppedIsTerminal ==
    stopsReturned > 0 => ~h.afterStop /\ (\A i \in LoopIds : ~InReport(i))


\* The document of goroutine i's report has been built.
DocBuilt(i) == rpt[i].total # NoTotals

\* C16: a report's per-source map has exactly the store's keys; a source with
\* zero bytes is in it, with bandwidth 0; with an uptime of 0 or less the total
\* bandwidth and every source's bandwidth are 0.
C16_SourcesAndZeroBandwidth ==
    \A i \in LoopIds :
       DocBuilt(i) =>
          /\ DOMAIN rpt[i].sources = DOMAIN store.sourceIPStats
          /\ \A ip \in DOMAIN rpt[i].sources :
                rpt[i].sources[ip].BytesSent = 0 =>
                   rpt[i].sources[ip].BandwidthMbps = ZeroBW
          /\ rpt[i].uptime <= 0 =>
                /\ rpt[i].totalBW = ZeroBW
                /\ \A ip \in DOMAIN rpt[i].sources :
                      rpt[i].sources[ip].BandwidthMbps = ZeroBW
          /\ rpt[i].lines # NoLines => rpt[i].lines.sources = DOMAIN store.sourceIPStats

\* A report at uptime 0 of a store that has counted bytes, with a source that
\* has sent and one that has not.
C16_Witness ==
    \E i \in LoopIds :
       /\ DocBuilt(i)
       /\ rpt[i].uptime = 0
       /\ rpt[i].total.BytesSent > 0
       /\ rpt[i].sources[KnownIP].BytesSent = 0
       /\ rpt[i].sources[SenderIP].BytesSent > 0
       /\ rpt[i].lines # NoLines


\* C17: every sample collectSystemStats returns comes from a recomputation
\* (never the zero value a new Reporter holds), and when it is served from the
\* cache the cache's timestamp is less than 30 seconds before the read; until
\* the first recomputation the cache is never taken as fresh.
C17_SamplesRecomputedAndFresh ==
    /\ \A r \in h.reads :
          /\ r.gen >= 1
          /\ r.v # ZeroStats
          /\ r.hit => (0 <= r.age /\ r.age < CacheTTL)
    /\ (h.gen = 0) <=> (lastCPUTime = ZeroTime)
    /\ h.gen = 0 => ~CacheFresh /\ lastCPUStats = ZeroStats
    /\ \A i \in LoopIds :
          (InReport(i) /\ pc[i] \notin {"rlock", "totals", "cssRLock", "cssCheck",
                                        "cssCompute"}) => rpt[i].stats # ZeroStats

\* A sample served from the cache some seconds after the first read
\* recomputed it.
C17_Witness ==
    \E a, b \in h.reads :
       /\ ~a.hit /\ a.gen = 1 /\ a.t = StartTime
       /\ b.hit /\ b.gen = 1 /\ b.age > 0


\* C18: from the construction of reportData to the return of generateReport
\* nothing the document reaches changes: the store (whose target map the
\* document shares) is left alone by every step, the document's own fields
\* stay as built, and what serialization reads through the shared map is the
\* map as it was at construction.
C18_DocumentImmutable ==
    /\ [](\A i \in LoopIds :
            DocBuilt(i) =>
               /\ i \in muReaders
               /\ wpc # "locked"
               /\ rpt[i].marshal = "ok" => rpt[i].target = store.targetStats)
    /\ [][\A i \in LoopIds :
            (DocBuilt(i) /\ DocBuilt(i)') =>
               /\ store' = store
               /\ rpt'[i].total = rpt[i].total
               /\ rpt'[i].sources = rpt[i].sources
               /\ rpt'[i].stats = rpt[i].stats
               /\ rpt'[i].totalBW = rpt[i].totalBW]_vars

\* A writer is kept waiting while the built and serialized document is being
\* delivered.
C18_Witness ==
    \E i \in LoopIds :
       /\ DocBuilt(i)
       /\ pc[i] = "inflight"
       /\ rpt[i].target = store.targetStats
       /\ wpc = "waiting"


\* Goroutine i holds a lock of the store or of the cache.
HoldsLock(i) == i \in muReaders \/ i \in cacheReaders \/ cacheWriter = i

\* C19: generateReport gives the store's read lock back on every way out, so a
\* goroutine that is not inside generateReport holds neither the store lock
\* nor the cache lock; it leaves only through its deferred RUnlock; and no step
\* of a reportLoop changes the store.
C19_LocksReleasedStoreUntouched ==
    /\ [](\A i \in LoopIds : ~InReport(i) => ~HoldsLock(i))
    /\ [][\A i \in LoopIds :
            /\ (InReport(i) /\ ~InReport(i)') =>
                  pc[i] = "runlock" /\ pc'[i] = "select" /\ ~HoldsLock(i)'
            /\ (pc'[i] # pc[i] \/ rpt'[i] # rpt[i]) => store' = store]_vars

\* Back at the select with no lock held, after a tick whose serialization
\* failed and a tick whose delivery failed, the context cancelled.
C19_Witness ==
    \E i \in LoopIds :
       /\ pc[i] = "select"
       /\ h.marshalFailed
       /\ h.failed
       /\ cancelled
       /\ muReaders = {}
       /\ store.bytesSent > 0


\* Goroutine i is inside collectSystemStats.
InCss(i) == pc[i] \in {"cssRLock", "cssCheck", "cssCompute", "cssLock", "cssUpdate"}

\* C20: the two locks cannot deadlock.  The cache lock is held only inside
\* collectSystemStats, hence under the store's read lock and never while the
\* store lock is being requested; the read hold is given back before the write
\* hold is requested; and under fair scheduling every generateReport that has
\* begun returns.
C20_NoLockDeadlock ==
    /\ [](\A i \in LoopIds :
            /\ (i \in cacheReaders \/ cacheWriter = i) => (InCss(i) /\ i \in muReaders)
            /\ pc[i] = "rlock" => ~HoldsLock(i)
            /\ pc[i] \in {"cssCompute", "cssLock"} => i \notin cacheReaders
            /\ ~(i \in cacheReaders /\ cacheWriter # 0))
    /\ \A i \in LoopIds : InReport(i) ~> ~InReport(i)

\* Two reports at once: one holds the cache lock for writing while the other
\* waits for its read hold, both under the store's read lock, a writer waiting.
C20_Witness ==
    \E i, j \in LoopIds :
       /\ pc[i] = "cssUpdate"
       /\ pc[j] = "cssRLock"
       /\ muReaders = {i, j}
       /\ wpc = "waiting"

====
